---- MODULE Spec2Model ----
(***************************************************************************)
(* The Action Cache server of server/remote_cache/action_cache_server:     *)
(* GetActionResult and UpdateActionResult over the prefixed digest cache   *)
(* s.cache, with the existence validation of the outputs an ActionResult   *)
(* references (checkFilesExist, checkDirExists, validateActionResult).     *)
(*                                                                         *)
(* The variable cache is the view s.cache = GetDigestCache().WithPrefix    *)
(* (acCachePrefix): every Get, Set and ContainsMulti of the server goes    *)
(* through this one view.  The user prefix that perms attaches to the      *)
(* context is the same on both paths; one caller scope is modelled.        *)
(***************************************************************************)
EXTENDS Integers, Sequences, FiniteSets, TLC

\* ------------------------------------------------------------------ bounds
MaxFiles == 1
MaxDirs == 1
MaxChildren == 2

\* ------------------------------------------------------------------ values
\* A nil pointer (a *repb.Digest, *repb.Directory, *repb.ExecutedActionMetadata
\* or *repb.ActionResult that is not set).
Nil == [nil |-> TRUE]

Digest(h, s) == [hash |-> h, size |-> s]

\* The generated getter: 0 on a nil digest.
GetSizeBytes(d) == IF d = Nil THEN 0 ELSE d.size

\* digest.Validate, by its contract: a missing digest and an empty or
\* malformed hash are rejected.
Validate(d) == d # Nil /\ d.hash \notin {"", "zz"}

dA == Digest("h1", 1)
dT == Digest("h2", 1)
dF == Digest("h3", 1)
dG == Digest("h4", 1)
dZ == Digest("h3", 0)
dBad == Digest("", 1)

\* base64.StdEncoding.EncodeToString(uuid.NodeID())
NodeWorker == "node"

\* status codes of the errors the handlers and the store produce
OK == "OK"
InvalidArgument == "InvalidArgument"
NotFound == "NotFound"
Internal == "Internal"
Unavailable == "Unavailable"
UnmarshalError == "UnmarshalError"

\* ------------------------------------------------------------------ messages
\* contents is the inlined byte sequence (empty when the file is not inlined)
OutputFile(d, c) == [digest |-> d, contents |-> c]
OutputDirectory(t) == [treeDigest |-> t]
Metadata(w, q) == [worker |-> w, queuedTimestamp |-> q]
ActionResult(fs, ds, m) ==
    [outputFiles |-> fs, outputDirectories |-> ds, executionMetadata |-> m]
FileNode(d) == [digest |-> d]
Directory(fs) == [files |-> fs]
Tree(r, cs) == [root |-> r, children |-> cs]

\* dir.GetFiles(): nil on a nil directory
GetFiles(dir) == IF dir = Nil THEN <<>> ELSE dir.files

SeqsUpTo(S, n) == UNION {[1..k -> S] : k \in 0..n}

\* ------------------------------------------------------------------ wire format
\* A serialized message is its sequence of fields, each a field number and a
\* payload.  Field numbers are those of remote_execution.proto.
Field(n, t, v) == [num |-> n, type |-> t, val |-> v]

Marshal(ar) ==
    [i \in 1..Len(ar.outputFiles) |-> Field(2, "OutputFile", ar.outputFiles[i])]
    \o [i \in 1..Len(ar.outputDirectories) |->
          Field(3, "OutputDirectory", ar.outputDirectories[i])]
    \o (IF ar.executionMetadata = Nil THEN <<>>
        ELSE <<Field(9, "ExecutedActionMetadata", ar.executionMetadata)>>)

MarshalTree(t) ==
    (IF t.root = Nil THEN <<>> ELSE <<Field(1, "Directory", t.root)>>)
    \o [i \in 1..Len(t.children) |-> Field(2, "Directory", t.children[i])]

\* bytes that are no protobuf message (field number 0 is illegal)
RawBlob == <<Field(0, "bytes", 0)>>

Failed == [failed |-> TRUE]

RECURSIVE UnmarshalInto(_, _, _)
\* proto.Unmarshal(blob, msg): fields are merged in order; a field number the
\* message does not declare is kept as an unknown field; a payload that is not
\* of the declared field's type, or an illegal field number, is an error.
UnmarshalInto(blob, msg, kind) ==
    IF blob = <<>> THEN msg
    ELSE LET f == Head(blob)
             rest == Tail(blob)
         IN  IF f.num = 0 THEN Failed
             ELSE IF kind = "ActionResult" THEN
                 IF f.num = 2 THEN
                     IF f.type # "OutputFile" THEN Failed
                     ELSE UnmarshalInto(rest,
                            [msg EXCEPT !.outputFiles = Append(@, f.val)], kind)
                 ELSE IF f.num = 3 THEN
                     IF f.type # "OutputDirectory" THEN Failed
                     ELSE UnmarshalInto(rest,
                            [msg EXCEPT !.outputDirectories = Append(@, f.val)], kind)
                 ELSE IF f.num = 9 THEN
                     IF f.type # "ExecutedActionMetadata" THEN Failed
                     ELSE UnmarshalInto(rest,
                            [msg EXCEPT !.executionMetadata = f.val], kind)
                 ELSE UnmarshalInto(rest, msg, kind)
             ELSE
                 IF f.num = 1 THEN
                     IF f.type # "Directory" THEN Failed
                     ELSE UnmarshalInto(rest, [msg EXCEPT !.root = f.val], kind)
                 ELSE IF f.num = 2 THEN
                     IF f.type # "Directory" THEN Failed
                     ELSE UnmarshalInto(rest,
                            [msg EXCEPT !.children = Append(@, f.val)], kind)
                 ELSE UnmarshalInto(rest, msg, kind)

\* proto.Unmarshal(blob, &repb.ActionResult{})
Unmarshal(blob) == UnmarshalInto(blob, ActionResult(<<>>, <<>>, Nil), "ActionResult")

\* proto.Unmarshal(blob, &repb.Tree{})
UnmarshalTree(blob) == UnmarshalInto(blob, Tree(Nil, <<>>), "Tree")

\* ------------------------------------------------------------------ the store
\* cache maps the digests that hold a blob to the blob.  The store is an
\* external collaborator: a call may also fail, and ContainsMulti may break its
\* contract by leaving a requested digest out of the mapping it returns.

\* cache.Get(ctx, d): the answers the store can give
GetResponses(c, d) ==
    {[err |-> Unavailable, blob |-> <<>>]}
    \cup (IF d \in DOMAIN c THEN {[err |-> OK, blob |-> c[d]]}
          ELSE {[err |-> NotFound, blob |-> <<>>]})

\* the answer of a store that works
GetAnswer(c, d) ==
    IF d \in DOMAIN c THEN [err |-> OK, blob |-> c[d]]
    ELSE [err |-> NotFound, blob |-> <<>>]

\* foundMap is keyed by the *repb.Digest pointers of the request, that is by
\* the position of each digest in the request.
ContainsAnswer(c, digests) ==
    [err |-> OK, found |-> [i \in 1..Len(digests) |-> digests[i] \in DOMAIN c]]

\* cache.ContainsMulti(ctx, digests): the answers the store can give
ContainsMultiResponses(c, digests) ==
    {ContainsAnswer(c, digests), [err |-> Unavailable, found |-> <<>>]}
    \cup {[err |-> OK,
           found |-> [i \in (1..Len(digests)) \ {k} |-> digests[i] \in DOMAIN c]]
          : k \in 1..Len(digests)}

\* cache.Set(ctx, d, blob): the store with the blob written
SetBlob(c, d, blob) == [k \in DOMAIN c \cup {d} |-> IF k = d THEN blob ELSE c[k]]

Remove(c, d) == [k \in DOMAIN c \ {d} |-> c[k]]

\* ------------------------------------------------------------------ validation
RECURSIVE checkFoundMap(_, _, _)
\* the loop of checkFilesExist over the requested digests, from position i
checkFoundMap(digests, foundMap, i) ==
    IF i > Len(digests) THEN OK
    ELSE IF i \notin DOMAIN foundMap THEN Internal
    ELSE IF ~foundMap[i] THEN NotFound
    ELSE checkFoundMap(digests, foundMap, i + 1)

\* checkFilesExist, given the store's answer to its one ContainsMulti
checkFilesExist(digests, rsp) ==
    IF rsp.err # OK THEN rsp.err ELSE checkFoundMap(digests, rsp.found, 1)

RECURSIVE dirDigests(_)
\* the digests checkDirExists collects from the files of a directory
dirDigests(files) ==
    IF files = <<>> THEN <<>>
    ELSE IF Head(files).digest = Nil THEN dirDigests(Tail(files))
    ELSE <<Head(files).digest>> \o dirDigests(Tail(files))

checkDirExistsDigests(dir) == dirDigests(GetFiles(dir))

\* every digest of the output files collected, inlined or not, of any size
fileDigestsUnfiltered(files) == [i \in 1..Len(files) |-> files[i].digest]

RECURSIVE fileDigests(_)
\* the digests validateActionResult collects from the output files
fileDigests(files) ==
    IF files = <<>> THEN <<>>
    ELSE IF Len(Head(files).contents) > 0 /\ GetSizeBytes(Head(files).digest) > 0
         THEN <<Head(files).digest>> \o fileDigests(Tail(files))
         ELSE fileDigests(Tail(files))

outputFileDigests(r) == fileDigests(r.outputFiles)

\* the stamp applied only where the client named no worker
setWorkerMetadataIfUnset(ar) ==
    IF ar.executionMetadata # Nil /\ ar.executionMetadata.worker # ""
    THEN ar
    ELSE [ar EXCEPT !.executionMetadata = Metadata(NodeWorker, 0)]

\* the stamp put on a fresh ActionResult instead of the client's
setWorkerMetadataOnFresh(ar) ==
    ActionResult(<<>>, <<>>, Metadata(NodeWorker, 0))

\* setWorkerMetadata: ar after the call, its metadata replaced by a new
\* ExecutedActionMetadata that holds the worker alone
setWorkerMetadata(ar) ==
    [ar EXCEPT !.executionMetadata = Metadata(NodeWorker, 0)]

\* ------------------------------------------------------------------ inputs
\* the action digests a request carries (or none)
ActionDigests == {Nil, dBad, dA}

\* an inlined file, a file that is not inlined, and inlined files whose digest
\* is of size 0, not set, or malformed
OutputFiles ==
    {OutputFile(dF, <<1>>), OutputFile(dF, <<>>), OutputFile(dZ, <<1>>),
     OutputFile(Nil, <<1>>), OutputFile(dBad, <<1>>)}

Metadatas == {Nil, Metadata("", 0), Metadata("client", 1)}

\* the ActionResults with output files only
FileResults ==
    {ActionResult(fs, <<>>, m) :
        fs \in SeqsUpTo(OutputFiles, MaxFiles), m \in Metadatas}

\* the ActionResults with output directories, and at most the inlined file
DirectoryResults ==
    {ActionResult(fs, ds, m) :
        fs \in {<<>>, <<OutputFile(dF, <<1>>)>>},
        ds \in SeqsUpTo({OutputDirectory(dT)}, MaxDirs) \ {<<>>},
        m \in Metadatas}

\* the ActionResults that reference, as an output file or as the tree of an
\* output directory, a digest equal to the action digest they are stored under
SelfReferringResults ==
    {ActionResult(<<OutputFile(dA, <<1>>)>>, <<>>, Nil),
     ActionResult(<<>>, <<OutputDirectory(dA)>>, Nil)}

\* the ActionResults the clients send: results with directories where trees
\* are uploaded (b is the blob of each digest that is uploaded), results with
\* files only elsewhere
ActionResults(b) ==
    IF dT \in DOMAIN b THEN DirectoryResults
    ELSE IF dA \in DOMAIN b THEN FileResults
    ELSE SelfReferringResults

\* the requests of UpdateActionResult
UpdateRequests(b) ==
    {<<dA, ar>> : ar \in ActionResults(b)}
    \cup {<<d, ActionResult(<<>>, <<>>, Nil)>> : d \in ActionDigests}
    \cup {<<d, Nil>> : d \in ActionDigests}

\* the trees the digest dT may stand for
Trees ==
    {Tree(r, <<>>) :
        r \in {Nil, Directory(<<FileNode(dF)>>),
               Directory(<<FileNode(dZ), FileNode(Nil)>>)}}
    \cup
    {Tree(Directory(<<FileNode(dF)>>), cs) :
        cs \in SeqsUpTo({Directory(<<FileNode(dF)>>), Directory(<<FileNode(dG)>>)},
                        MaxChildren)}

\* the file digests a tree lists
TreeFileDigests(t) ==
    {f.digest : f \in {GetFiles(t.root)[i] : i \in 1..Len(GetFiles(t.root))}}
    \cup UNION {{t.children[j].files[i].digest : i \in 1..Len(t.children[j].files)}
                : j \in 1..Len(t.children)}

\* what other writers of the store upload: the blob of each digest they
\* upload.  Blobs are content addressed: a digest stands for one blob.  Where
\* trees are uploaded, dT stands for a tree (or for bytes that are no tree)
\* and the files the tree lists are uploaded as well.
Uploads ==
    {[k \in {dA, dF, dZ} |-> RawBlob]}
    \cup {[k \in {dF} |-> RawBlob]}
    \cup {[k \in {dA, dT, dF} |-> RawBlob]}
    \cup
    {[k \in {dA, dT, dF} \cup (TreeFileDigests(t) \ {Nil}) |->
         IF k = dT THEN MarshalTree(t) ELSE RawBlob] : t \in Trees}

\* ------------------------------------------------------------------ state
VARIABLES
    cache,   \* the store behind s.cache: digest -> blob, for the digests present
    calls,   \* the RPC in progress of each request slot
    hist,    \* the last successful UpdateActionResult, while the store has
             \* not been written or evicted by anyone else since
    blobs    \* the blob of each digest other writers upload

vars == <<cache, calls, hist, blobs>>

Idle ==
    [pc |-> "idle", op |-> "", d |-> Nil, req |-> Nil, rsp |-> Nil,
     di |-> 0, ci |-> 0, tree |-> Nil, log |-> <<>>,
     code |-> "", err |-> "", result |-> Nil,
     faulted |-> FALSE, disturbed |-> FALSE, check |-> Nil]

LogGet(d) == [op |-> "Get", key |-> d]
LogSet(d, blob) == [op |-> "Set", key |-> d, blob |-> blob]
LogContainsMulti(digests) == [op |-> "ContainsMulti", digests |-> digests]

\* disturbed records, for a call and for its response while it is held, that
\* the store has been written or evicted from by someone else since the call
\* began
Disturb(cs, except) ==
    [q \in DOMAIN cs |->
        IF q \notin except /\ cs[q].pc # "idle"
        THEN [cs[q] EXCEPT !.disturbed = TRUE] ELSE cs[q]]

\* the handler returns (code, result)
Done(c, code, result) == [c EXCEPT !.pc = "done", !.code = code, !.result = result]

Init ==
    /\ cache = <<>>
    /\ calls = [p \in {1} |-> Idle]
    /\ hist = Nil
    /\ blobs \in Uploads

\* ------------------------------------------------------------------ GetActionResult
\* the request checks without digest.Validate
GetActionResultUnvalidated(p, d) ==
    /\ calls[p].pc = "idle"
    /\ LET c == [Idle EXCEPT !.op = "Get", !.d = d]
       IN  calls' = [calls EXCEPT ![p] =
               IF d = Nil THEN Done(c, InvalidArgument, Nil)
               ELSE [c EXCEPT !.pc = "get"]]
    /\ UNCHANGED <<cache, hist, blobs>>

\* lines 119-126: the request checks
GetActionResult(p, d) ==
    /\ calls[p].pc = "idle"
    /\ LET c == [Idle EXCEPT !.op = "Get", !.d = d]
       IN  calls' = [calls EXCEPT ![p] =
               IF d = Nil THEN Done(c, InvalidArgument, Nil)
               ELSE IF ~Validate(d) THEN Done(c, InvalidArgument, Nil)
               ELSE [c EXCEPT !.pc = "get"]]
    /\ UNCHANGED <<cache, hist, blobs>>

\* the Get of the action digest with the error of the store returned as it is
GetFetchRawError(p) ==
    /\ calls[p].pc = "get"
    /\ \E r \in GetResponses(cache, calls[p].d) :
         LET c == [calls[p] EXCEPT
                     !.log = Append(@, LogGet(calls[p].d)),
                     !.faulted = @ \/ r # GetAnswer(cache, calls[p].d)]
             m == Unmarshal(r.blob)
         IN  calls' = [calls EXCEPT ![p] =
                 IF r.err # OK THEN Done(c, r.err, Nil)
                 ELSE IF m = Failed THEN Done(c, UnmarshalError, Nil)
                 ELSE [c EXCEPT !.rsp = m, !.pc = "files"]]
    /\ UNCHANGED <<cache, hist, blobs>>

\* the Get of the action digest with a blob that does not decode taken for a
\* missing entry
GetFetchMasked(p) ==
    /\ calls[p].pc = "get"
    /\ \E r \in GetResponses(cache, calls[p].d) :
         LET c == [calls[p] EXCEPT
                     !.log = Append(@, LogGet(calls[p].d)),
                     !.faulted = @ \/ r # GetAnswer(cache, calls[p].d)]
             m == Unmarshal(r.blob)
         IN  calls' = [calls EXCEPT ![p] =
                 IF r.err # OK \/ m = Failed THEN Done(c, NotFound, Nil)
                 ELSE [c EXCEPT !.rsp = m, !.pc = "files"]]
    /\ UNCHANGED <<cache, hist, blobs>>

\* lines 128-138: the Get of the action digest and the Unmarshal of its blob
GetFetch(p) ==
    /\ calls[p].pc = "get"
    /\ \E r \in GetResponses(cache, calls[p].d) :
         LET c == [calls[p] EXCEPT
                     !.log = Append(@, LogGet(calls[p].d)),
                     !.faulted = @ \/ r # GetAnswer(cache, calls[p].d)]
             m == Unmarshal(r.blob)
         IN  calls' = [calls EXCEPT ![p] =
                 IF r.err # OK THEN Done(c, NotFound, Nil)
                 ELSE IF m = Failed THEN Done(c, UnmarshalError, Nil)
                 ELSE [c EXCEPT !.rsp = m, !.pc = "files"]]
    /\ UNCHANGED <<cache, hist, blobs>>

\* the error of validateActionResult returned as it is
validateFailedRaw(c, err) == [Done(c, err, Nil) EXCEPT !.err = err]

\* lines 139-141: an error of validateActionResult becomes NotFound
validateFailed(c, err) == [Done(c, NotFound, Nil) EXCEPT !.err = err]

\* line 78: the loop over r.OutputDirectories, at directory i; line 97 after it
NextDir(c, i) ==
    IF i > Len(c.rsp.outputDirectories) THEN [c EXCEPT !.pc = "return"]
    ELSE [c EXCEPT !.pc = "tree", !.di = i]

\* the loop over the children left after its first round
NextChildFirstOnly(c, j) ==
    IF j > Len(c.tree.children) \/ j > 1 THEN NextDir(c, c.di + 1)
    ELSE [c EXCEPT !.pc = "child", !.ci = j]

\* line 91: the loop over tree.GetChildren(), at child j
NextChild(c, j) ==
    IF j > Len(c.tree.children) THEN NextDir(c, c.di + 1)
    ELSE [c EXCEPT !.pc = "child", !.ci = j]

\* the call after one ContainsMulti for each of the digests
CheckedOneByOne(c, digests, r) ==
    [c EXCEPT !.log = @ \o [i \in 1..Len(digests) |->
                               LogContainsMulti(<<digests[i]>>)],
              !.faulted = @ \/ r # ContainsAnswer(cache, digests),
              !.check = [digests |-> digests, answer |-> r,
                         verdict |-> checkFilesExist(digests, r)]]

\* the call after its ContainsMulti on digests was answered by r (line 40)
Checked(c, digests, r) ==
    [c EXCEPT !.log = Append(@, LogContainsMulti(digests)),
              !.faulted = @ \/ r # ContainsAnswer(cache, digests),
              !.check = [digests |-> digests, answer |-> r,
                         verdict |-> checkFilesExist(digests, r)]]

\* the check of the output files, with the entry deleted when it fails
CheckOutputFilesPurging(p) ==
    /\ calls[p].pc = "files"
    /\ LET digests == outputFileDigests(calls[p].rsp)
       IN  \E r \in ContainsMultiResponses(cache, digests) :
             LET c == Checked(calls[p], digests, r)
                 e == checkFilesExist(digests, r)
             IN  /\ calls' = [calls EXCEPT ![p] =
                        IF e # OK THEN validateFailed(c, e) ELSE NextDir(c, 1)]
                 /\ cache' = IF e # OK THEN Remove(cache, calls[p].d) ELSE cache
    /\ UNCHANGED <<hist, blobs>>

\* lines 68-76: the check of the output files
CheckOutputFiles(p) ==
    /\ calls[p].pc = "files"
    /\ LET digests == outputFileDigests(calls[p].rsp)
       IN  \E r \in ContainsMultiResponses(cache, digests) :
             LET c == Checked(calls[p], digests, r)
                 e == checkFilesExist(digests, r)
             IN  calls' = [calls EXCEPT ![p] =
                     IF e # OK THEN validateFailed(c, e) ELSE NextDir(c, 1)]
    /\ UNCHANGED <<cache, hist, blobs>>

\* lines 79-86: the Get of a tree blob and its Unmarshal
FetchTree(p) ==
    /\ calls[p].pc = "tree"
    /\ LET t == calls[p].rsp.outputDirectories[calls[p].di].treeDigest
       IN  \E r \in GetResponses(cache, t) :
             LET c == [calls[p] EXCEPT
                         !.log = Append(@, LogGet(t)),
                         !.faulted = @ \/ r # GetAnswer(cache, t)]
                 m == UnmarshalTree(r.blob)
             IN  calls' = [calls EXCEPT ![p] =
                     IF r.err # OK THEN validateFailed(c, r.err)
                     ELSE IF m = Failed THEN validateFailed(c, UnmarshalError)
                     ELSE [c EXCEPT !.tree = m, !.pc = "root"]]
    /\ UNCHANGED <<cache, hist, blobs>>

\* checkDirExists on the root of the tree with its error dropped
CheckRootIgnored(p) ==
    /\ calls[p].pc = "root"
    /\ LET digests == checkDirExistsDigests(calls[p].tree.root)
       IN  \E r \in ContainsMultiResponses(cache, digests) :
             calls' = [calls EXCEPT ![p] =
                          NextChild(Checked(calls[p], digests, r), 1)]
    /\ UNCHANGED <<cache, hist, blobs>>

\* lines 87-89: checkDirExists on the root of the tree
CheckRoot(p) ==
    /\ calls[p].pc = "root"
    /\ LET digests == checkDirExistsDigests(calls[p].tree.root)
       IN  \E r \in ContainsMultiResponses(cache, digests) :
             LET c == Checked(calls[p], digests, r)
                 e == checkFilesExist(digests, r)
             IN  calls' = [calls EXCEPT ![p] =
                     IF e # OK THEN validateFailed(c, e) ELSE NextChild(c, 1)]
    /\ UNCHANGED <<cache, hist, blobs>>

\* lines 91-95: checkDirExists on one child of the tree
CheckChild(p) ==
    /\ calls[p].pc = "child"
    /\ LET digests == checkDirExistsDigests(calls[p].tree.children[calls[p].ci])
       IN  \E r \in ContainsMultiResponses(cache, digests) :
             LET c == Checked(calls[p], digests, r)
                 e == checkFilesExist(digests, r)
             IN  calls' = [calls EXCEPT ![p] =
                     IF e # OK THEN validateFailed(c, e)
                     ELSE NextChild(c, c.ci + 1)]
    /\ UNCHANGED <<cache, hist, blobs>>

\* line 142: the validated result is returned
GetReturn(p) ==
    /\ calls[p].pc = "return"
    /\ calls' = [calls EXCEPT ![p] = Done(calls[p], OK, calls[p].rsp)]
    /\ UNCHANGED <<cache, hist, blobs>>

\* ------------------------------------------------------------------ UpdateActionResult
\* lines 162-181: the request checks, the stamp and the Marshal
UpdateActionResult(p, d, ar) ==
    /\ calls[p].pc = "idle"
    /\ LET c == [Idle EXCEPT !.op = "Update", !.d = d, !.req = ar]
       IN  calls' = [calls EXCEPT ![p] =
               IF d = Nil THEN Done(c, InvalidArgument, Nil)
               ELSE IF ar = Nil THEN Done(c, InvalidArgument, Nil)
               ELSE IF ~Validate(d) THEN Done(c, InvalidArgument, Nil)
               ELSE [c EXCEPT !.rsp = setWorkerMetadata(ar), !.pc = "set"]]
    /\ UNCHANGED <<cache, hist, blobs>>

\* the Set appending the payload to the entry the store already holds
UpdateSetMerging(p) ==
    /\ calls[p].pc = "set"
    /\ LET blob == Marshal(calls[p].rsp)
           c == [calls[p] EXCEPT !.log = Append(@, LogSet(calls[p].d, blob))]
       IN  \/ /\ cache' = SetBlob(cache, c.d,
                            IF c.d \in DOMAIN cache THEN cache[c.d] \o blob
                            ELSE blob)
              /\ calls' = [Disturb(calls, {p}) EXCEPT ![p] = Done(c, OK, c.rsp)]
              /\ hist' = [d |-> c.d, ar |-> c.req]
              /\ UNCHANGED blobs
           \/ /\ calls' = [calls EXCEPT ![p] =
                    Done([c EXCEPT !.faulted = TRUE], Unavailable, Nil)]
              /\ UNCHANGED <<cache, hist, blobs>>

\* lines 183-186: the Set, and the return of the stamped result
UpdateSet(p) ==
    /\ calls[p].pc = "set"
    /\ LET blob == Marshal(calls[p].rsp)
           c == [calls[p] EXCEPT !.log = Append(@, LogSet(calls[p].d, blob))]
       IN  \/ /\ cache' = SetBlob(cache, c.d, blob)
              /\ calls' = [Disturb(calls, {p}) EXCEPT ![p] = Done(c, OK, c.rsp)]
              /\ hist' = [d |-> c.d, ar |-> c.req]
              /\ UNCHANGED blobs
           \/ /\ calls' = [calls EXCEPT ![p] =
                    Done([c EXCEPT !.faulted = TRUE], Unavailable, Nil)]
              /\ UNCHANGED <<cache, hist, blobs>>

\* the response has been delivered; the slot takes the next request
Finish(p) ==
    /\ calls[p].pc = "done"
    /\ calls' = [calls EXCEPT ![p] = Idle]
    /\ UNCHANGED <<cache, hist, blobs>>

\* ------------------------------------------------------------------ the store's other users
\* the store evicts a blob by its own policy
Evict(k) ==
    /\ k \in DOMAIN cache
    /\ cache' = Remove(cache, k)
    /\ calls' = Disturb(calls, {})
    /\ hist' = Nil
    /\ UNCHANGED blobs

\* another writer of the store uploads the blob of a digest
Put(k) ==
    /\ cache' = SetBlob(cache, k, blobs[k])
    /\ cache' # cache
    /\ calls' = Disturb(calls, {})
    /\ hist' = Nil
    /\ UNCHANGED blobs

Next ==
    \/ \E p \in DOMAIN calls, d \in ActionDigests : GetActionResult(p, d)
    \/ \E p \in DOMAIN calls : GetFetch(p)
    \/ \E p \in DOMAIN calls : CheckOutputFiles(p)
    \/ \E p \in DOMAIN calls : FetchTree(p)
    \/ \E p \in DOMAIN calls : CheckRoot(p)
    \/ \E p \in DOMAIN calls : CheckChild(p)
    \/ \E p \in DOMAIN calls : GetReturn(p)
    \/ \E p \in DOMAIN calls, r \in UpdateRequests(blobs) :
          UpdateActionResult(p, r[1], r[2])
    \/ \E p \in DOMAIN calls : UpdateSet(p)
    \/ \E p \in DOMAIN calls : Finish(p)
    \/ \E k \in DOMAIN cache : Evict(k)
    \/ \E k \in DOMAIN blobs : Put(k)

Spec == Init /\ [][Next]_vars

\* ------------------------------------------------------------------ two requests at a time
\* The gRPC server runs each request on its own goroutine and the handlers
\* take no lock: two request slots, each call a sequence of store calls that
\* the calls of the other slot interleave with.

\* the payloads that concurrent writers send for the action digest dA
ConcurrentResults ==
    {ActionResult(<<OutputFile(dF, <<1>>)>>, <<>>, Metadata("client", 1)),
     ActionResult(<<OutputFile(dG, <<1>>)>>, <<>>, Nil),
     ActionResult(<<>>, <<>>, Nil)}

InitConc ==
    /\ cache = <<>>
    /\ calls = [p \in {1, 2} |-> Idle]
    /\ hist = Nil
    /\ blobs = [k \in {dF, dG} |-> RawBlob]

NextConc ==
    \/ \E p \in DOMAIN calls : GetActionResult(p, dA)
    \/ \E p \in DOMAIN calls : GetFetch(p)
    \/ \E p \in DOMAIN calls : CheckOutputFiles(p)
    \/ \E p \in DOMAIN calls : GetReturn(p)
    \/ \E p \in DOMAIN calls, ar \in ConcurrentResults :
          UpdateActionResult(p, dA, ar)
    \/ \E p \in DOMAIN calls : UpdateSet(p)
    \/ \E p \in DOMAIN calls : Finish(p)
    \/ \E k \in DOMAIN cache : Evict(k)
    \/ \E k \in DOMAIN blobs : Put(k)

SpecConc == InitConc /\ [][NextConc]_vars

\* ------------------------------------------------------------------ what the claims speak of
\* the digests that are set among the files of a directory
SetDigests(files) == {files[i].digest : i \in 1..Len(files)} \ {Nil}

\* in the store st: the tree blob under t is held, and so is every file
\* digest that its root and its children list
TreePresentIn(st, t) ==
    /\ t \in DOMAIN st
    /\ UnmarshalTree(st[t]) # Failed
    /\ LET tree == UnmarshalTree(st[t])
       IN  /\ SetDigests(GetFiles(tree.root)) \subseteq DOMAIN st
           /\ \A j \in 1..Len(tree.children) :
                 SetDigests(tree.children[j].files) \subseteq DOMAIN st

\* in the store st: every output directory of r has its tree and the files of
\* its tree
DirsPresentIn(st, r) ==
    \A i \in 1..Len(r.outputDirectories) :
        TreePresentIn(st, r.outputDirectories[i].treeDigest)

DirsPresent(r) == DirsPresentIn(cache, r)

\* every output file of r that has a digest has it present
FilesPresent(r) == SetDigests(r.outputFiles) \subseteq DOMAIN cache

\* every blob r references is in the store
AllPresent(r) == FilesPresent(r) /\ DirsPresent(r)

\* a GetActionResult that has returned
GetDone(c) == c.op = "Get" /\ c.pc = "done"

\* a GetActionResult that has returned and read the entry of its action
\* digest, the store neither written nor evicted from since it began
QuietGetDone(c) == GetDone(c) /\ c.rsp # Nil /\ ~c.disturbed

\* a GetActionResult that has returned and follows, on the same digest, the
\* UpdateActionResult recorded in hist, with the store left alone in between
\* and answering every call of the Get without a fault
GetAfterUpdate(c) ==
    /\ GetDone(c)
    /\ hist # Nil
    /\ hist.d = c.d
    /\ ~c.faulted

\* r with the worker field of its metadata set to w, and nothing else changed
WithWorker(r, w) ==
    [r EXCEPT !.executionMetadata =
        IF @ = Nil THEN Metadata(w, 0) ELSE [@ EXCEPT !.worker = w]]

\* the digests a logged store call carries
LoggedDigests(e) ==
    IF e.op = "ContainsMulti" THEN {e.digests[i] : i \in 1..Len(e.digests)}
    ELSE {e.key}

\* ------------------------------------------------------------------ C1
\* C1: a stored ActionResult with an output file whose digest is absent from
\* the store is NotFound on GetActionResult, whatever the inlined contents of
\* the file (stated for digests of a size above 0).
C1_AbsentOutputFileIsNotFound ==
    \A p \in DOMAIN calls :
        LET c == calls[p]
        IN  (/\ QuietGetDone(c)
             /\ \E i \in 1..Len(c.rsp.outputFiles) :
                   /\ GetSizeBytes(c.rsp.outputFiles[i].digest) > 0
                   /\ c.rsp.outputFiles[i].digest \notin DOMAIN cache)
            => c.code = NotFound

\* ------------------------------------------------------------------ C2
\* C2: when GetActionResult returns an ActionResult, every blob the result
\* references is in the store at the moment of the return, under any
\* interleaving with evictions (stated for the results whose output files are
\* all inlined, the files that validation looks up).
C2_HitHasAllBlobsPresent ==
    [][\A p \in DOMAIN calls :
          (/\ calls[p].pc = "return"
           /\ calls'[p].pc = "done"
           /\ \A i \in 1..Len(calls'[p].result.outputFiles) :
                 Len(calls'[p].result.outputFiles[i].contents) > 0)
          => /\ \A i \in 1..Len(calls'[p].result.outputFiles) :
                   LET d == calls'[p].result.outputFiles[i].digest
                   IN  GetSizeBytes(d) > 0 => d \in DOMAIN cache'
             /\ DirsPresentIn(cache', calls'[p].result)]_vars

\* ------------------------------------------------------------------ C3
\* C3: UpdateActionResult(d, r) with all blobs r references present, then
\* GetActionResult(d) with no write or eviction in between and a store that
\* answers without fault, returns the outputFiles and outputDirectories that
\* were written.
C3_RoundTrip ==
    \A p \in DOMAIN calls :
        LET c == calls[p]
        IN  (GetAfterUpdate(c) /\ AllPresent(hist.ar))
            => /\ c.code = OK
               /\ c.result.outputFiles = hist.ar.outputFiles
               /\ c.result.outputDirectories = hist.ar.outputDirectories

C3_Witness ==
    \E p \in DOMAIN calls :
        /\ GetAfterUpdate(calls[p])
        /\ AllPresent(hist.ar)
        /\ calls[p].code = OK
        /\ Len(hist.ar.outputFiles) > 0
        /\ Len(hist.ar.outputDirectories) > 0
        /\ Len(calls[p].tree.children) = 2

\* ------------------------------------------------------------------ C4
\* C4: the Get after an Update (all blobs r references present, no write or
\* eviction in between, no fault of the store) returns r as the client
\* supplied it, but for executionMetadata.worker: every other field of the
\* metadata is kept.
C4_OnlyWorkerChanges ==
    \A p \in DOMAIN calls :
        LET c == calls[p]
        IN  (GetAfterUpdate(c) /\ AllPresent(hist.ar))
            => /\ c.code = OK
               /\ c.result = WithWorker(hist.ar, NodeWorker)

\* ------------------------------------------------------------------ C5
\* C5: a successful UpdateActionResult stores and returns an ActionResult
\* whose worker is the server's identifier, whatever the client supplied.
C5_WorkerIsServerStamped ==
    \A p \in DOMAIN calls :
        LET c == calls[p]
        IN  (c.op = "Update" /\ c.pc = "done" /\ c.code = OK)
            => /\ c.result.executionMetadata # Nil
               /\ c.result.executionMetadata.worker = NodeWorker
               /\ Len(c.log) = 1
               /\ c.log[1].op = "Set"
               /\ Unmarshal(c.log[1].blob) # Failed
               /\ Unmarshal(c.log[1].blob).executionMetadata # Nil
               /\ Unmarshal(c.log[1].blob).executionMetadata.worker = NodeWorker

C5_Witness ==
    \E p \in DOMAIN calls :
        /\ calls[p].op = "Update"
        /\ calls[p].pc = "done"
        /\ calls[p].code = OK
        /\ calls[p].req.executionMetadata # Nil
        /\ calls[p].req.executionMetadata.worker = "client"

\* ------------------------------------------------------------------ C6
\* C6: existence validation never passes a digest of size 0, nor an entry
\* without a digest, to ContainsMulti: not for an output file, not for a file
\* of a tree's root or children.
C6_NoZeroSizeLookup ==
    \A p \in DOMAIN calls :
        \A i \in 1..Len(calls[p].log) :
            calls[p].log[i].op = "ContainsMulti"
            => \A d \in LoggedDigests(calls[p].log[i]) : d # Nil /\ d.size # 0

\* ------------------------------------------------------------------ C7
\* C7: every digest that reaches the store, as the key of a Get or a Set or
\* as an element of a ContainsMulti, has passed digest validation.
C7_OnlyValidatedDigestsReachStore ==
    \A p \in DOMAIN calls :
        \A i \in 1..Len(calls[p].log) :
            \A d \in LoggedDigests(calls[p].log[i]) : Validate(d)

\* ------------------------------------------------------------------ C8
\* a request that lacks its action digest or its ActionResult, or whose
\* digest fails Validate
BadRequest(c) == c.d = Nil \/ ~Validate(c.d) \/ (c.op = "Update" /\ c.req = Nil)

\* C8: a request with a missing or invalid argument returns InvalidArgument
\* at once, and a call that returns InvalidArgument has issued no Get, Set
\* or ContainsMulti and has left the store as it was.
C8_InvalidArgumentBeforeStore ==
    [][\A p \in DOMAIN calls :
          /\ (calls[p].pc = "idle" /\ calls'[p].pc # "idle" /\ BadRequest(calls'[p]))
             => calls'[p].pc = "done" /\ calls'[p].code = InvalidArgument
          /\ (calls[p].pc # "done" /\ calls'[p].pc = "done"
                /\ calls'[p].code = InvalidArgument)
             => /\ calls'[p].log = <<>>
                /\ calls'[p].result = Nil
                /\ cache' = cache]_vars

C8_Witness ==
    /\ cache # <<>>
    /\ \E p \in DOMAIN calls :
          /\ calls[p].pc = "done"
          /\ calls[p].op = "Get"
          /\ calls[p].d = dBad
          /\ calls[p].code = InvalidArgument

\* ------------------------------------------------------------------ C9
\* C9: once GetActionResult has decoded the entry, every failure of
\* validateActionResult (NotFound, a store error, a tree that does not
\* decode, the Internal fault of an inconsistent mapping) is returned as
\* NotFound with no ActionResult.
C9_ValidationFailureIsNotFound ==
    \A p \in DOMAIN calls :
        LET c == calls[p]
        IN  (GetDone(c) /\ c.rsp # Nil)
            => \/ c.code = OK /\ c.result = c.rsp /\ c.err = ""
               \/ /\ c.code = NotFound
                  /\ c.result = Nil
                  /\ c.err \in {NotFound, Unavailable, UnmarshalError, Internal}

C9_Witness ==
    \E p \in DOMAIN calls :
        /\ GetDone(calls[p])
        /\ calls[p].rsp # Nil
        /\ calls[p].err = Internal
        /\ calls[p].code = NotFound

\* ------------------------------------------------------------------ C10
\* C10: with the store left alone during the call, GetActionResult returns
\* a result with output directories only if every tree blob is in the store
\* and every file digest of its root and of each child is; a missing tree
\* or an absent file digest in any child makes it NotFound.
C10_DirectoriesValidated ==
    \A p \in DOMAIN calls :
        LET c == calls[p]
        IN  QuietGetDone(c)
            => /\ c.code = OK => DirsPresent(c.rsp)
               /\ ~DirsPresent(c.rsp) => c.code = NotFound /\ c.result = Nil

\* the first child passes and the second one lists an absent digest
C10_Witness ==
    \E p \in DOMAIN calls :
        /\ QuietGetDone(calls[p])
        /\ ~calls[p].faulted
        /\ calls[p].code = NotFound
        /\ calls[p].ci = 2
        /\ calls[p].tree.children =
              <<Directory(<<FileNode(dF)>>), Directory(<<FileNode(dG)>>)>>
        /\ dT \in DOMAIN cache
        /\ dF \in DOMAIN cache
        /\ dG \notin DOMAIN cache

\* ------------------------------------------------------------------ validation at large
\* GetActionResult on the stored ActionResults that have up to MaxCheckFiles
\* output files and up to MaxCheckDirs output directories, over stores that
\* hold any part of the blobs they reference and that no one else writes.
MaxCheckFiles == 2
MaxCheckDirs == 2

dU == Digest("h5", 1)

\* the tree dU stands for: a root and a child of two files
TreeU ==
    Tree(Directory(<<FileNode(dG)>>),
         <<Directory(<<FileNode(dF), FileNode(dG)>>)>>)

CheckedFiles ==
    {OutputFile(dF, <<1>>), OutputFile(dG, <<1>>), OutputFile(dF, <<>>),
     OutputFile(dZ, <<1>>)}

\* the stored results with files only
CheckedFileResults ==
    {ActionResult(fs, <<>>, Nil) : fs \in SeqsUpTo(CheckedFiles, MaxCheckFiles)}

\* the stored results with directories
CheckedDirectoryResults ==
    {ActionResult(fs, ds, Nil) :
        fs \in {<<>>, <<OutputFile(dF, <<1>>)>>},
        ds \in SeqsUpTo({OutputDirectory(dT), OutputDirectory(dU)}, MaxCheckDirs)
               \ {<<>>}}

\* the store that holds the entry of r under dA and, of the blobs b, those
\* of the digests in held
StoreOf(r, b, held) ==
    [k \in {dA} \cup held |-> IF k = dA THEN Marshal(r) ELSE b[k]]

InitValidation ==
    /\ calls = [p \in {1} |-> Idle]
    /\ hist = Nil
    /\ \/ /\ blobs = [k \in {dF, dG} |-> RawBlob]
          /\ \E r \in CheckedFileResults, held \in SUBSET {dF, dG} :
                cache = StoreOf(r, blobs, held)
       \/ /\ \E t \in Trees :
                blobs = [k \in {dT, dU, dF, dG} |->
                            IF k = dT THEN MarshalTree(t)
                            ELSE IF k = dU THEN MarshalTree(TreeU)
                            ELSE RawBlob]
          /\ \E r \in CheckedDirectoryResults, held \in SUBSET {dT, dU, dF, dG} :
                cache = StoreOf(r, blobs, held)

NextValidation ==
    \/ \E p \in DOMAIN calls : GetActionResult(p, dA)
    \/ \E p \in DOMAIN calls : GetFetch(p)
    \/ \E p \in DOMAIN calls : CheckOutputFiles(p)
    \/ \E p \in DOMAIN calls : FetchTree(p)
    \/ \E p \in DOMAIN calls : CheckRoot(p)
    \/ \E p \in DOMAIN calls : CheckChild(p)
    \/ \E p \in DOMAIN calls : GetReturn(p)

SpecValidation == InitValidation /\ [][NextValidation]_vars

\* ------------------------------------------------------------------ C11
\* C11: when the store's Get of the action digest misses (never written, or
\* evicted) or fails, GetActionResult returns NotFound with no result, never
\* the error of the store.
C11_StoreMissIsNotFound ==
    [][\A p \in DOMAIN calls :
          (/\ calls[p].pc = "get"
           /\ calls'[p].pc # "get"
           /\ (calls[p].d \notin DOMAIN cache \/ calls'[p].faulted))
          => /\ calls'[p].pc = "done"
             /\ calls'[p].code = NotFound
             /\ calls'[p].result = Nil
             /\ calls'[p].log = <<LogGet(calls[p].d)>>]_vars

\* the store failed on the Get of an entry it holds
C11_Witness ==
    \E p \in DOMAIN calls :
        /\ GetDone(calls[p])
        /\ calls[p].faulted
        /\ ~calls[p].disturbed
        /\ calls[p].d \in DOMAIN cache
        /\ Len(calls[p].log) = 1
        /\ calls[p].code = NotFound

\* ------------------------------------------------------------------ C12
\* C12: when the blob under the action digest does not deserialize into an
\* ActionResult, GetActionResult returns the deserialization error, which is
\* not NotFound, runs no existence validation and returns no ActionResult.
C12_UndecodableEntryIsError ==
    [][\A p \in DOMAIN calls :
          (/\ calls[p].pc = "get"
           /\ calls'[p].pc # "get"
           /\ ~calls'[p].faulted
           /\ calls[p].d \in DOMAIN cache
           /\ Unmarshal(cache[calls[p].d]) = Failed)
          => /\ calls'[p].pc = "done"
             /\ calls'[p].code = UnmarshalError
             /\ calls'[p].code # NotFound
             /\ calls'[p].result = Nil
             /\ calls'[p].log = <<LogGet(calls[p].d)>>]_vars

C12_Witness ==
    \E p \in DOMAIN calls :
        /\ GetDone(calls[p])
        /\ ~calls[p].disturbed
        /\ calls[p].d \in DOMAIN cache
        /\ cache[calls[p].d] = RawBlob
        /\ calls[p].code = UnmarshalError

\* ------------------------------------------------------------------ C13
\* C13: UpdateActionResult validates no existence: a call that succeeds has
\* issued one Set on its action digest and neither a Get nor a ContainsMulti,
\* whether or not the blobs its ActionResult references are in the store; and
\* the GetActionResult that follows it is NotFound as long as a referenced
\* blob is missing (stated for output file digests of a size above 0, and for
\* the trees of the output directories with the files they list).
C13_UpdateUncheckedThenMiss ==
    \A p \in DOMAIN calls :
        LET c == calls[p]
        IN  /\ (c.op = "Update" /\ c.pc = "done" /\ c.code = OK)
                => /\ Len(c.log) = 1
                   /\ c.log[1].op = "Set"
                   /\ c.log[1].key = c.d
            /\ (/\ GetAfterUpdate(c)
                /\ ~c.disturbed
                /\ \/ \E i \in 1..Len(hist.ar.outputFiles) :
                         /\ GetSizeBytes(hist.ar.outputFiles[i].digest) > 0
                         /\ hist.ar.outputFiles[i].digest \notin DOMAIN cache
                   \/ ~DirsPresent(hist.ar))
                => c.code = NotFound

\* ------------------------------------------------------------------ C14
\* C14: with two UpdateActionResult calls on the same action digest running at
\* the same time, in every interleaving each call returns its own payload
\* with the worker stamped; once both have returned, the stored entry is the
\* payload one of the two returned, the one that hist records as set last,
\* never a mixture; and a later GetActionResult with every output present
\* returns that payload.
C14_LastWriteWins ==
    /\ \A p \in DOMAIN calls :
          LET c == calls[p]
          IN  /\ (c.op = "Update" /\ c.pc = "done" /\ c.code = OK)
                  => /\ c.result.outputFiles = c.req.outputFiles
                     /\ c.result.outputDirectories = c.req.outputDirectories
                     /\ c.result.executionMetadata.worker = NodeWorker
              /\ (GetAfterUpdate(c) /\ ~c.disturbed /\ AllPresent(hist.ar))
                  => /\ c.code = OK
                     /\ c.result = Unmarshal(cache[c.d])
                     /\ c.result.outputFiles = hist.ar.outputFiles
                     /\ c.result.executionMetadata.worker = NodeWorker
    /\ (/\ \A p \in DOMAIN calls :
              calls[p].op = "Update" /\ calls[p].pc = "done" /\ calls[p].code = OK
        /\ \A p, q \in DOMAIN calls : calls[p].d = calls[q].d
        /\ hist # Nil)
        => \E p \in DOMAIN calls :
              /\ hist.d = calls[p].d
              /\ hist.ar = calls[p].req
              /\ hist.d \in DOMAIN cache
              /\ Unmarshal(cache[hist.d]) = calls[p].result

\* both calls have returned; the second slot began before the first slot's
\* Set and its own Set came last
C14_Witness ==
    /\ DOMAIN calls = {1, 2}
    /\ \A p \in DOMAIN calls :
          calls[p].op = "Update" /\ calls[p].pc = "done" /\ calls[p].code = OK
    /\ calls[1].req # calls[2].req
    /\ calls[1].req.outputFiles # <<>>
    /\ calls[2].req.outputFiles # <<>>
    /\ calls[1].disturbed /\ calls[2].disturbed
    /\ hist # Nil
    /\ hist.ar = calls[2].req
    /\ Unmarshal(cache[dA]) = calls[2].result

\* ------------------------------------------------------------------ C15
\* C15: the key space of the Action Cache is apart from the one output blobs
\* are looked up in: when GetActionResult returns a result, every digest its
\* validation found present (ContainsMulti) or fetched as a tree (Get) is a
\* blob that was uploaded as such, never a digest that is in the store only
\* because UpdateActionResult stored an ActionResult under it.
C15_SeparateKeySpaces ==
    \A p \in DOMAIN calls :
        LET c == calls[p]
        IN  (GetDone(c) /\ c.code = OK)
            => \A i \in 2..Len(c.log) :
                  LoggedDigests(c.log[i]) \subseteq DOMAIN blobs

\* ------------------------------------------------------------------ C16
\* an output file with inlined contents that are not empty and a digest of a
\* size above 0
InlinedAndSized(f) == Len(f.contents) > 0 /\ GetSizeBytes(f.digest) > 0

\* the digests, in order, of the files of fs that are inlined and sized
DigestsOfInlinedAndSized(fs) ==
    LET sel == SelectSeq(fs, InlinedAndSized)
    IN  [i \in 1..Len(sel) |-> sel[i].digest]

\* C16: the first ContainsMulti of the validation of an ActionResult carries
\* the digests of exactly the output files whose inlined contents are not
\* empty and whose digest has a size above 0, each of them and no other.
C16_FirstLookupIsInlinedAndSized ==
    \A p \in DOMAIN calls :
        LET c == calls[p]
        IN  (c.op = "Get" /\ Len(c.log) >= 2)
            => /\ c.log[2].op = "ContainsMulti"
               /\ c.log[2].digests = DigestsOfInlinedAndSized(c.rsp.outputFiles)

\* of two output files one is looked up and one is left out
C16_Witness ==
    \E p \in DOMAIN calls :
        /\ calls[p].op = "Get"
        /\ Len(calls[p].log) >= 2
        /\ Len(calls[p].rsp.outputFiles) = 2
        /\ Len(calls[p].log[2].digests) = 1

\* ------------------------------------------------------------------ C17
\* C17: on the mapping that ContainsMulti returned, checkFilesExist returns
\* Internal whenever some requested digest is absent from the mapping,
\* wherever it stands in the request and whatever the mapping says of the
\* others; NotFound only when every requested digest is in the mapping and
\* one at least is marked not found; and no error only when every requested
\* digest is in the mapping and marked found.
C17_MissingKeyIsInternal ==
    \A p \in DOMAIN calls :
        LET k == calls[p].check
        IN  (k # Nil /\ k.answer.err = OK)
            => LET asked == 1..Len(k.digests)
                   missing == \E i \in asked : i \notin DOMAIN k.answer.found
                   notFound == \E i \in asked \cap DOMAIN k.answer.found :
                                  ~k.answer.found[i]
               IN  /\ missing => k.verdict = Internal
                   /\ k.verdict = NotFound => (~missing /\ notFound)
                   /\ k.verdict = OK => (~missing /\ ~notFound)

\* ------------------------------------------------------------------ C18
HasDigest(f) == f.digest # Nil

\* the digests, in order, that the files of a directory have set
DigestsOfDirectory(dir) ==
    LET sel == SelectSeq(GetFiles(dir), HasDigest)
    IN  [i \in 1..Len(sel) |-> sel[i].digest]

\* the store calls that the directory with tree digest t takes when every one
\* of them succeeds: the Get of the tree, the lookup of its root, the lookup
\* of each child in sequence; the Get alone if the store has no tree under t
PlanOfDirectory(t) ==
    IF t \notin DOMAIN cache \/ UnmarshalTree(cache[t]) = Failed
    THEN <<LogGet(t)>>
    ELSE LET tree == UnmarshalTree(cache[t])
         IN  <<LogGet(t), LogContainsMulti(DigestsOfDirectory(tree.root))>>
             \o [j \in 1..Len(tree.children) |->
                    LogContainsMulti(DigestsOfDirectory(tree.children[j]))]

RECURSIVE PlanOfDirectories(_)
PlanOfDirectories(ds) ==
    IF ds = <<>> THEN <<>>
    ELSE PlanOfDirectory(Head(ds).treeDigest) \o PlanOfDirectories(Tail(ds))

\* the store calls of a GetActionResult on d that reads the entry r and whose
\* every step succeeds
PlanOfGet(d, r) ==
    <<LogGet(d), LogContainsMulti(DigestsOfInlinedAndSized(r.outputFiles))>>
    \o PlanOfDirectories(r.outputDirectories)

\* the store, answering without a fault, lets the logged step pass
StepPasses(e) ==
    IF e.op = "ContainsMulti"
    THEN \A i \in 1..Len(e.digests) : e.digests[i] \in DOMAIN cache
    ELSE e.key \in DOMAIN cache /\ UnmarshalTree(cache[e.key]) # Failed

\* C18: validation runs in a fixed order and stops at the first step that
\* fails: the lookup of the output files comes before any Get of a tree; each
\* output directory, in order, has its tree fetched, then its root looked up,
\* then its children looked up in sequence; every step before the last one
\* issued has passed; a call that returns a result has issued every step;
\* and a validation that fails has issued nothing after the failing step,
\* whose error it reports.
C18_FixedOrderShortCircuit ==
    \A p \in DOMAIN calls :
        LET c == calls[p]
            plan == PlanOfGet(c.d, c.rsp)
            n == Len(c.log)
        IN  (c.op = "Get" /\ c.rsp # Nil /\ ~c.disturbed)
            => /\ n <= Len(plan)
               /\ \A i \in 1..n : c.log[i] = plan[i]
               /\ \A i \in 2..(n - 1) : StepPasses(c.log[i])
               /\ (c.pc = "done" /\ c.code = OK)
                      => (n = Len(plan) /\ StepPasses(c.log[n]))
               /\ (c.pc = "done" /\ c.code # OK /\ ~c.faulted)
                      => /\ ~StepPasses(c.log[n])
                         /\ c.err = IF c.log[n].op = "Get"
                                       /\ c.log[n].key \in DOMAIN cache
                                    THEN UnmarshalError ELSE NotFound

\* of two output directories the first fails at a child of its tree, and the
\* tree of the second is never fetched
C18_Witness ==
    \E p \in DOMAIN calls :
        LET c == calls[p]
        IN  /\ GetDone(c)
            /\ c.rsp # Nil
            /\ ~c.faulted
            /\ c.code = NotFound
            /\ Len(c.rsp.outputDirectories) = 2
            /\ c.di = 1
            /\ c.ci >= 1
            /\ c.log[Len(c.log)].op = "ContainsMulti"
            /\ Len(c.log) < Len(PlanOfGet(c.d, c.rsp))

\* ------------------------------------------------------------------ C19
\* the positions of the log that hold a call of the operation op
CallsOf(log, op) == {i \in 1..Len(log) : log[i].op = op}

RECURSIVE LookupsOfDirectories(_)
\* for the output directories ds: one lookup for the root of each tree and
\* one for each of its children
LookupsOfDirectories(ds) ==
    IF ds = <<>> THEN 0
    ELSE 1 + Len(UnmarshalTree(cache[Head(ds).treeDigest]).children)
           + LookupsOfDirectories(Tail(ds))

\* C19: every check of a list of digests issues one ContainsMulti that carries
\* the whole list, an empty list too; so a GetActionResult that returns a
\* result, for the k output directories with c_1 .. c_k children in their
\* trees, has issued 1 + sum(1 + c_i) ContainsMulti, k Get of trees after the
\* Get of the entry, and no other store call.
C19_OneLookupPerCheck ==
    \A p \in DOMAIN calls :
        LET c == calls[p]
            lookups == CallsOf(c.log, "ContainsMulti")
        IN  /\ c.check # Nil
               => /\ lookups # {}
                  /\ LET last == CHOOSE i \in lookups : \A j \in lookups : j <= i
                     IN  c.log[last].digests = c.check.digests
            /\ (GetDone(c) /\ c.code = OK /\ ~c.disturbed)
               => /\ Cardinality(CallsOf(c.log, "ContainsMulti"))
                        = 1 + LookupsOfDirectories(c.rsp.outputDirectories)
                  /\ Cardinality(CallsOf(c.log, "Get"))
                        = 1 + Len(c.rsp.outputDirectories)
                  /\ Len(c.log) = Cardinality(CallsOf(c.log, "ContainsMulti"))
                                  + Cardinality(CallsOf(c.log, "Get"))

\* two output directories, one tree with two children and one with one: six
\* lookups, one of them of no digest, and two Get of trees
C19_Witness ==
    \E p \in DOMAIN calls :
        LET c == calls[p]
        IN  /\ GetDone(c)
            /\ c.code = OK
            /\ c.rsp.outputFiles = <<>>
            /\ Len(c.rsp.outputDirectories) = 2
            /\ Cardinality(CallsOf(c.log, "ContainsMulti")) = 6
            /\ Cardinality(CallsOf(c.log, "Get")) = 3
            /\ c.log[2].digests = <<>>

\* ------------------------------------------------------------------ C20
\* C20: GetActionResult never changes the store, whatever it returns: no step
\* of the handler writes or removes a blob and it issues no Set; an entry that
\* fails validation is still in the store, as it was read, when the call
\* returns; and a call that returns a result returns the entry the store
\* holds, so the entry is returned by a later call once the blobs are there.
C20_GetLeavesStoreAlone ==
    [][\A p \in DOMAIN calls :
          (/\ calls'[p].op = "Get"
           /\ (calls'[p].pc # calls[p].pc \/ calls'[p].log # calls[p].log))
          => /\ cache' = cache
             /\ \A i \in 1..Len(calls'[p].log) : calls'[p].log[i].op # "Set"
             /\ (calls'[p].pc = "done" /\ calls'[p].rsp # Nil
                                       /\ ~calls'[p].disturbed)
                 => /\ calls'[p].d \in DOMAIN cache'
                    /\ Unmarshal(cache'[calls'[p].d]) = calls'[p].rsp
                    /\ calls'[p].code = OK => calls'[p].result = calls'[p].rsp]_vars

\* the first slot holds the NotFound of a validation that failed; the blob
\* was uploaded since, and the second slot got the same entry returned
C20_Witness ==
    /\ DOMAIN calls = {1, 2}
    /\ GetDone(calls[1]) /\ GetDone(calls[2])
    /\ calls[1].code = NotFound
    /\ calls[1].rsp # Nil
    /\ calls[1].disturbed
    /\ calls[2].code = OK
    /\ ~calls[2].disturbed
    /\ calls[2].result = calls[1].rsp
    /\ calls[2].result.outputFiles # <<>>

====
